---- MODULE Spec2Model ----
(***************************************************************************)
(* ZGC mark stack allocator (zMarkStackAllocator.cpp).                      *)
(*                                                                         *)
(* ZMarkStackSpace is a bump allocator over a reserved address range:      *)
(* _top is advanced by a CAS loop (alloc_space) and, under _expand_lock,   *)
(* by a fetch-and-add that follows the commit of one more expansion        *)
(* increment (expand_and_alloc_space).  ZMarkStackAllocator puts a free    *)
(* list of magazines in front of it and primes that list on construction.  *)
(*                                                                         *)
(* Every atomic access to _top, _end, _expand_lock and the free list is    *)
(* one step of the thread that makes it.  os::commit_memory_or_exit is     *)
(* taken to return (when it does not, the process exits inside the OS      *)
(* layer and no further step of this file runs).                           *)
(*                                                                         *)
(* Spec is the allocator with concurrent workers, SpecScenario the         *)
(* allocator called by one worker at a time, SpecSpace the address space   *)
(* called directly with mixed sizes, SpecSpaceFair the same under weak     *)
(* fairness of every worker, and SpecMagazine one chunk formatted by       *)
(* create_magazine_from_space and then pushed to and popped from.          *)
(***************************************************************************)
EXTENDS Integers, Sequences, FiniteSets, TLC

(* ---- sizes (zGlobals; the values are those of the spec's scenario) ---- *)
ZMarkStackSize == 64
ZMarkStackMagazineSize == 320
ZMarkStackSpaceExpandSize == 1280
ZMarkStackSpaceLimit == 2560

\* ZMarkStackMagazineSlots: one slot of the chunk holds the magazine header
ZMarkStackMagazineSlots == (ZMarkStackMagazineSize \div ZMarkStackSize) - 1

(* ---- bounds of the model ---- *)
NumWorkers == 2
\* calls of alloc_magazine and free_magazine the workers may start (Spec)
MaxCalls == 7
\* calls of ZMarkStackSpace::alloc the workers may start (SpecSpace)
MaxAllocs == 4
\* the address os::reserve_memory hands out when it succeeds
SpaceBase == 4096
\* slots of the largest chunk passed to create_magazine_from_space on its own
MaxChunkSlots == 6
\* pushes and pops made on one magazine after it was formatted
MaxMagOps == 5

Main == 0
Workers == 1..NumWorkers
Threads == 0..NumWorkers
NoThread == NumWorkers + 1

\* what os::reserve_memory may return: NULL or the base of the range
ReserveResults == {0, SpaceBase}

\* chunks passed to create_magazine_from_space on its own: where and how large
ChunkAddrs == {SpaceBase, SpaceBase + ZMarkStackMagazineSize}
ChunkSizes == {k * ZMarkStackSize : k \in 1..MaxChunkSlots}

\* a stack that belongs to another magazine
ForeignStacks == {SpaceBase + ZMarkStackSpaceExpandSize + ZMarkStackSize}

\* every address that may be pushed on the magazine looked at on its own
StackAddrs ==
  {a + i * ZMarkStackSize : a \in ChunkAddrs, i \in 0..(MaxChunkSlots - 1)} \cup ForeignStacks

\* request sizes of the direct callers of ZMarkStackSpace::alloc
AllocSizes == {ZMarkStackMagazineSize, 3 * ZMarkStackMagazineSize, ZMarkStackSpaceExpandSize}

VARIABLES
  start,      \* ZMarkStackSpace::_start
  top,        \* ZMarkStackSpace::_top
  end,        \* ZMarkStackSpace::_end
  lock,       \* owner of ZMarkStackSpace::_expand_lock, or NoThread
  committed,  \* addresses passed to os::commit_memory_or_exit (one increment each)
  fatal,      \* fatal() was called: the process is gone
  freelist,   \* ZMarkStackAllocator::_freelist, most recently pushed first
  magazine,   \* the formatted magazines: [addr, stacks] (stacks pushed, in order)
  held,       \* magazines each worker got from alloc_magazine and has not freed
  pc,         \* position of each thread
  op,         \* the call each thread is in: "none", "prime", "alloc_magazine", "alloc"
  size,       \* parameter size of alloc / alloc_space / expand_and_alloc_space
  ltop,       \* local top of alloc_space
  addr,       \* local addr of expand_and_alloc_space / alloc
  inlock,     \* alloc_space was called from expand_and_alloc_space
  old_size,   \* local old_size of expand_and_alloc_space
  primed,     \* loop variable size of prime_freelist
  ncalls,     \* calls (alloc_magazine, free_magazine, alloc) the workers have started
  nullret,    \* some alloc_magazine call returned NULL
  granted,    \* ranges returned by ZMarkStackSpace::alloc so far
  reserved,   \* what os::reserve_memory returned to ZMarkStackSpace's constructor
  m_pc,       \* one chunk on its own: "none", "raw", "ready" or "assert"
  m_debug,    \* the build has assert() compiled in
  m_addr,     \* parameter addr of create_magazine_from_space
  m_size,     \* parameter size of create_magazine_from_space
  m_stacks,   \* the stacks that magazine holds, oldest first
  m_failed,   \* pushes that returned false while the chunk was formatted
  m_last,     \* the last push or pop on that magazine: [op, arg, ret]
  m_stamp,    \* for each stack in that magazine, when it was pushed (else 0)
  m_ops       \* pushes and pops made on that magazine after formatting

magVars == <<m_pc, m_debug, m_addr, m_size, m_stacks, m_failed, m_last, m_stamp, m_ops>>

allocVars == <<start, top, end, lock, committed, fatal, freelist, magazine, held, pc, op,
               size, ltop, addr, inlock, old_size, primed, ncalls, nullret, granted,
               reserved>>

vars == <<allocVars, magVars>>

spaceVars == <<start, top, end, lock, committed, fatal>>
listVars == <<freelist, magazine, held>>
localVars == <<size, ltop, addr, inlock, old_size>>

(* ------------------------------------------------------------------ *)
(* Pure parts of the code                                             *)
(* ------------------------------------------------------------------ *)

\* faulty variant: initialized whatever the reservation returned
IsInitializedAlways == TRUE

\* ZMarkStackSpace::is_initialized
IsInitialized == start # 0

\* ZMarkStackAllocator::is_initialized
AllocatorIsInitialized == IsInitialized

\* faulty variant: the test compares top, not new_top, with end
NotEnoughSpaceIgnoresSize(t_top, sz, e) == t_top > e

\* alloc_space: new_top = top + size; if (new_top > end) return 0
NotEnoughSpace(t_top, sz, e) == t_top + sz > e

\* faulty variant: >= in place of >
LimitReachedAtLimit(new_size) == new_size >= ZMarkStackSpaceLimit

\* expand_and_alloc_space: if (new_size > ZMarkStackSpaceLimit) fatal(...)
LimitReached(new_size) == new_size > ZMarkStackSpaceLimit

\* faulty variant: a plain store of new_top in place of the compare-and-swap
CmpxchgTopStores(cur, expected, new_top) == new_top

\* Atomic::cmpxchg(&_top, top, new_top): the value _top has afterwards
CmpxchgTop(cur, expected, new_top) == IF cur = expected THEN new_top ELSE cur

\* faulty variant: the result of cmpxchg is not compared
CasResultIgnored(prev_top, t_top) == TRUE

\* alloc_space: if (prev_top == top), prev_top being the value cmpxchg found
CasSucceeded(prev_top, t_top) == prev_top = t_top

\* faulty variant: add_and_fetch, the value after the addition
AddAndFetchResult(cur, sz) == cur + sz

\* faulty variant: the result of fetch_and_add is dropped, addr keeps the 0
\* of the failed alloc_space
FetchAndAddResultDropped(cur, sz) == 0

\* addr = Atomic::fetch_and_add(&_top, size): the value assigned to addr
FetchAndAddResult(cur, sz) == cur

\* faulty variant: commits at _start, not at _end
CommitMemoryAtStart(c, e) == c \cup {start}

\* os::commit_memory_or_exit((char*)_end, expand_size, ...): what is committed
CommitMemory(c, e) == c \cup {e}

\* faulty variant: _end advanced by the magazine size, not by expand_size
ExpandedEndBySize(e) == e + ZMarkStackMagazineSize

\* Atomic::add(&_end, expand_size): the value _end has afterwards
ExpandedEnd(e) == e + ZMarkStackSpaceExpandSize

\* faulty variants: <= in place of <, and the comparison inverted
PrimeMoreInclusive(sz) == sz <= ZMarkStackSpaceExpandSize
PrimeMoreInverted(sz) == sz > ZMarkStackSpaceExpandSize

\* prime_freelist: the loop test size < ZMarkStackSpaceExpandSize
PrimeMore(sz) == sz < ZMarkStackSpaceExpandSize

\* ZStack::push on a magazine: false (unchanged) when full
MagazineIsFull(m) == Len(m) = ZMarkStackMagazineSlots

\* faulty variant: push does not look at the capacity
MagazinePushUnbounded(m, stack) == Append(m, stack)

MagazinePush(m, stack) == IF MagazineIsFull(m) THEN m ELSE Append(m, stack)
MagazinePushResult(m) == ~MagazineIsFull(m)

\* ZStack::pop on a magazine: NULL (0) when empty, else the last stack pushed
MagazinePop(m) == IF m = <<>> THEN m ELSE SubSeq(m, 1, Len(m) - 1)
MagazinePopResult(m) == IF m = <<>> THEN 0 ELSE m[Len(m)]

\* the loop of create_magazine_from_space, from offset i on
RECURSIVE FormatStacks(_, _, _, _)
FormatStacks(m, a, i, sz) ==
  IF i < sz
    THEN FormatStacks(MagazinePush(m, a + i), a, i + ZMarkStackSize, sz)
    ELSE m

\* the loop of create_magazine_from_space, from offset i on: how often
\* success is false
RECURSIVE FormatFailures(_, _, _, _)
FormatFailures(m, a, i, sz) ==
  IF i < sz
    THEN (IF MagazinePushResult(m) THEN 0 ELSE 1)
           + FormatFailures(MagazinePush(m, a + i), a, i + ZMarkStackSize, sz)
    ELSE 0

\* faulty variant: the loop starts at offset 0, on the slot of the header
CreateMagazineFromOffsetZero(a, sz) == FormatStacks(<<>>, a, 0, sz)

\* create_magazine_from_space: the stacks the new magazine holds
CreateMagazineFromSpace(a, sz) == FormatStacks(<<>>, a, ZMarkStackSize, sz)

\* create_magazine_from_space: how often assert(success, ...) sees false
CreateMagazineFailures(a, sz) == FormatFailures(<<>>, a, ZMarkStackSize, sz)

\* ZMarkStackMagazineList::push / pop
FreelistPush(list, m) == <<m>> \o list
FreelistTop(list) == Head(list)
FreelistPop(list) == Tail(list)

(* ------------------------------------------------------------------ *)
(* Initial states                                                     *)
(* ------------------------------------------------------------------ *)

InitLocals ==
  /\ op = [t \in Threads |-> "none"]
  /\ size = [t \in Threads |-> 0]
  /\ ltop = [t \in Threads |-> 0]
  /\ addr = [t \in Threads |-> 0]
  /\ inlock = [t \in Threads |-> FALSE]
  /\ old_size = [t \in Threads |-> 0]
  /\ ncalls = 0
  /\ nullret = FALSE
  /\ held = [w \in Workers |-> {}]
  /\ granted = {}
  /\ primed = 0

\* no chunk is looked at on its own
NoChunk ==
  /\ m_pc = "none"
  /\ m_debug = FALSE
  /\ m_addr = 0 /\ m_size = 0
  /\ m_stacks = <<>>
  /\ m_failed = 0
  /\ m_last = [op |-> "none", arg |-> 0, ret |-> 0]
  /\ m_stamp = <<>>
  /\ m_ops = 0

\* member initialisers of ZMarkStackAllocator and ZMarkStackSpace, before the
\* constructor bodies run
Init ==
  /\ start = 0 /\ top = 0 /\ end = 0
  /\ lock = NoThread
  /\ committed = {}
  /\ fatal = FALSE
  /\ freelist = <<>>
  /\ magazine = {}
  /\ pc = [t \in Threads |-> IF t = Main THEN "ctor" ELSE "idle"]
  /\ reserved = 0
  /\ InitLocals
  /\ NoChunk

\* a ZMarkStackSpace on its own, after its constructor reserved the range
InitSpace ==
  /\ start = SpaceBase /\ top = SpaceBase /\ end = SpaceBase
  /\ lock = NoThread
  /\ committed = {}
  /\ fatal = FALSE
  /\ freelist = <<>>
  /\ magazine = {}
  /\ pc = [t \in Threads |-> IF t = Main THEN "done" ELSE "idle"]
  /\ reserved = SpaceBase
  /\ InitLocals
  /\ NoChunk

\* one chunk of a space whose first increment has been handed out, about to
\* be passed to create_magazine_from_space, in a build with or without assert()
InitMagazine ==
  /\ start = SpaceBase /\ end = SpaceBase + ZMarkStackSpaceExpandSize /\ top = end
  /\ lock = NoThread
  /\ committed = {SpaceBase}
  /\ fatal = FALSE
  /\ freelist = <<>>
  /\ magazine = {}
  /\ pc = [t \in Threads |-> IF t = Main THEN "done" ELSE "idle"]
  /\ reserved = SpaceBase
  /\ InitLocals
  /\ m_pc = "raw"
  /\ m_debug \in BOOLEAN
  /\ m_addr \in ChunkAddrs
  /\ m_size \in ChunkSizes
  /\ m_stacks = <<>>
  /\ m_failed = 0
  /\ m_last = [op |-> "none", arg |-> 0, ret |-> 0]
  /\ m_stamp = [a \in StackAddrs |-> 0]
  /\ m_ops = 0

(* ------------------------------------------------------------------ *)
(* ZMarkStackSpace                                                    *)
(* ------------------------------------------------------------------ *)

Running == ~fatal

\* alloc_space: uintptr_t top = Atomic::load(&_top)
LoadTop(t) ==
  /\ Running /\ pc[t] = "as_load_top"
  /\ ltop' = [ltop EXCEPT ![t] = top]
  /\ pc' = [pc EXCEPT ![t] = "as_load_end"]
  /\ UNCHANGED <<spaceVars, listVars, op, size, addr, inlock, old_size, primed,
                 ncalls, nullret, granted>>
  /\ UNCHANGED <<reserved, magVars>>

\* alloc_space: end = Atomic::load(&_end); new_top = top + size;
\* if (new_top > end) return 0.  The caller of a failed alloc_space goes on:
\* alloc to expand_and_alloc_space, expand_and_alloc_space to its limit check.
LoadEnd(t) ==
  /\ Running /\ pc[t] = "as_load_end"
  /\ pc' = [pc EXCEPT ![t] =
              IF NotEnoughSpace(ltop[t], size[t], end)
                THEN (IF inlock[t] THEN "check_limit" ELSE "lock")
                ELSE "as_cas"]
  /\ UNCHANGED <<spaceVars, listVars, op, localVars, primed, ncalls, nullret, granted>>
  /\ UNCHANGED <<reserved, magVars>>

\* faulty variant: a failed cmpxchg retries with the value of top it had
CasRetriesStale(t) ==
  /\ Running /\ pc[t] = "as_cas"
  /\ top' = CmpxchgTop(top, ltop[t], ltop[t] + size[t])
  /\ IF CasSucceeded(top, ltop[t])
       THEN /\ addr' = [addr EXCEPT ![t] = ltop[t]]
            /\ pc' = [pc EXCEPT ![t] = IF inlock[t] THEN "exp_ret" ELSE "alloc_ret"]
       ELSE /\ pc' = [pc EXCEPT ![t] = "as_load_end"]
            /\ UNCHANGED addr
  /\ UNCHANGED <<start, end, lock, committed, fatal, listVars, op, size, inlock,
                 ltop, old_size, primed, ncalls, nullret, granted>>
  /\ UNCHANGED <<reserved, magVars>>

\* alloc_space: prev_top = Atomic::cmpxchg(&_top, top, new_top);
\* success returns top, failure retries with top = prev_top
Cas(t) ==
  /\ Running /\ pc[t] = "as_cas"
  /\ top' = CmpxchgTop(top, ltop[t], ltop[t] + size[t])
  /\ IF CasSucceeded(top, ltop[t])
       THEN /\ addr' = [addr EXCEPT ![t] = ltop[t]]
            /\ pc' = [pc EXCEPT ![t] = IF inlock[t] THEN "exp_ret" ELSE "alloc_ret"]
            /\ UNCHANGED ltop
       ELSE /\ ltop' = [ltop EXCEPT ![t] = top]
            /\ pc' = [pc EXCEPT ![t] = "as_load_end"]
            /\ UNCHANGED addr
  /\ UNCHANGED <<start, end, lock, committed, fatal, listVars, op, size, inlock,
                 old_size, primed, ncalls, nullret, granted>>
  /\ UNCHANGED <<reserved, magVars>>

\* faulty variant: the lock is taken while another thread holds it
LockNotExclusive(t) ==
  /\ Running /\ pc[t] = "lock"
  /\ lock' = t
  /\ inlock' = [inlock EXCEPT ![t] = TRUE]
  /\ pc' = [pc EXCEPT ![t] = "as_load_top"]
  /\ UNCHANGED <<start, top, end, committed, fatal, listVars, op, size, ltop, addr,
                 old_size, primed, ncalls, nullret, granted>>
  /\ UNCHANGED <<reserved, magVars>>

\* faulty variant: no retry of alloc_space under the lock
LockSkipsRetry(t) ==
  /\ Running /\ pc[t] = "lock"
  /\ lock = NoThread
  /\ lock' = t
  /\ inlock' = [inlock EXCEPT ![t] = TRUE]
  /\ pc' = [pc EXCEPT ![t] = "check_limit"]
  /\ UNCHANGED <<start, top, end, committed, fatal, listVars, op, size, ltop, addr,
                 old_size, primed, ncalls, nullret, granted>>
  /\ UNCHANGED <<reserved, magVars>>

\* expand_and_alloc_space: ZLocker<ZLock> locker(&_expand_lock), then the
\* call of alloc_space(size) that retries the allocation
Lock(t) ==
  /\ Running /\ pc[t] = "lock"
  /\ lock = NoThread
  /\ lock' = t
  /\ inlock' = [inlock EXCEPT ![t] = TRUE]
  /\ pc' = [pc EXCEPT ![t] = "as_load_top"]
  /\ UNCHANGED <<start, top, end, committed, fatal, listVars, op, size, ltop, addr,
                 old_size, primed, ncalls, nullret, granted>>
  /\ UNCHANGED <<reserved, magVars>>

\* expand_and_alloc_space: old_size = _end - _start; new_size = old_size +
\* expand_size; if (new_size > ZMarkStackSpaceLimit) fatal(...)
CheckLimit(t) ==
  /\ Running /\ pc[t] = "check_limit"
  /\ old_size' = [old_size EXCEPT ![t] = end - start]
  /\ IF LimitReached((end - start) + ZMarkStackSpaceExpandSize)
       THEN /\ fatal' = TRUE
            /\ pc' = [pc EXCEPT ![t] = "fatal"]
       ELSE /\ fatal' = FALSE
            /\ pc' = [pc EXCEPT ![t] = "commit"]
  /\ UNCHANGED <<start, top, end, lock, committed, listVars, op, size, ltop, addr,
                 inlock, primed, ncalls, nullret, granted>>
  /\ UNCHANGED <<reserved, magVars>>

\* expand_and_alloc_space: os::commit_memory_or_exit((char*)_end, expand_size, ...)
Commit(t) ==
  /\ Running /\ pc[t] = "commit"
  /\ committed' = CommitMemory(committed, end)
  /\ pc' = [pc EXCEPT ![t] = "faa"]
  /\ UNCHANGED <<start, top, end, lock, fatal, listVars, op, localVars, primed,
                 ncalls, nullret, granted>>
  /\ UNCHANGED <<reserved, magVars>>

\* faulty variant: _end is published before _top is advanced
FetchAndAddAfterEnd(t) ==
  /\ Running
  /\ \/ /\ pc[t] = "faa"
        /\ end' = ExpandedEnd(end)
        /\ pc' = [pc EXCEPT ![t] = "faa_top"]
        /\ UNCHANGED <<top, addr>>
     \/ /\ pc[t] = "faa_top"
        /\ addr' = [addr EXCEPT ![t] = FetchAndAddResult(top, size[t])]
        /\ top' = top + size[t]
        /\ pc' = [pc EXCEPT ![t] = "exp_ret"]
        /\ UNCHANGED end
  /\ UNCHANGED <<start, lock, committed, fatal, listVars, op, size, ltop,
                 inlock, old_size, primed, ncalls, nullret, granted>>
  /\ UNCHANGED <<reserved, magVars>>

\* expand_and_alloc_space: addr = Atomic::fetch_and_add(&_top, size)
FetchAndAdd(t) ==
  /\ Running /\ pc[t] = "faa"
  /\ addr' = [addr EXCEPT ![t] = FetchAndAddResult(top, size[t])]
  /\ top' = top + size[t]
  /\ pc' = [pc EXCEPT ![t] = "add_end"]
  /\ UNCHANGED <<start, end, lock, committed, fatal, listVars, op, size, ltop,
                 inlock, old_size, primed, ncalls, nullret, granted>>
  /\ UNCHANGED <<reserved, magVars>>

\* expand_and_alloc_space: Atomic::add(&_end, expand_size)
AddEnd(t) ==
  /\ Running /\ pc[t] = "add_end"
  /\ end' = ExpandedEnd(end)
  /\ pc' = [pc EXCEPT ![t] = "exp_ret"]
  /\ UNCHANGED <<start, top, lock, committed, fatal, listVars, op, localVars,
                 primed, ncalls, nullret, granted>>
  /\ UNCHANGED <<reserved, magVars>>

\* expand_and_alloc_space: return addr (either return); ~ZLocker unlocks
ExpandReturn(t) ==
  /\ Running /\ pc[t] = "exp_ret"
  /\ lock' = NoThread
  /\ inlock' = [inlock EXCEPT ![t] = FALSE]
  /\ pc' = [pc EXCEPT ![t] = "alloc_ret"]
  /\ UNCHANGED <<start, top, end, committed, fatal, listVars, op, size, ltop, addr,
                 old_size, primed, ncalls, nullret, granted>>
  /\ UNCHANGED <<reserved, magVars>>

\* the locals of a finished call
ClearLocals(t) ==
  /\ op' = [op EXCEPT ![t] = "none"]
  /\ size' = [size EXCEPT ![t] = 0]
  /\ ltop' = [ltop EXCEPT ![t] = 0]
  /\ addr' = [addr EXCEPT ![t] = 0]
  /\ old_size' = [old_size EXCEPT ![t] = 0]
  /\ UNCHANGED inlock

\* a worker calls ZMarkStackSpace::alloc(size) on the space
Alloc(t, sz) ==
  /\ Running /\ pc[t] = "idle" /\ pc[Main] = "done"
  /\ IsInitialized
  /\ ncalls < MaxAllocs
  /\ ncalls' = ncalls + 1
  /\ op' = [op EXCEPT ![t] = "alloc"]
  /\ size' = [size EXCEPT ![t] = sz]
  /\ pc' = [pc EXCEPT ![t] = "as_load_top"]
  /\ UNCHANGED <<spaceVars, listVars, ltop, addr, inlock, old_size, primed,
                 nullret, granted>>
  /\ UNCHANGED <<reserved, magVars>>

\* ZMarkStackSpace::alloc returns addr to that worker
AllocReturn(t) ==
  /\ Running /\ pc[t] = "alloc_ret" /\ op[t] = "alloc"
  /\ granted' = granted \cup {[addr |-> addr[t], size |-> size[t]]}
  /\ pc' = [pc EXCEPT ![t] = "idle"]
  /\ ClearLocals(t)
  /\ UNCHANGED <<spaceVars, listVars, primed, ncalls, nullret>>
  /\ UNCHANGED <<reserved, magVars>>

(* ------------------------------------------------------------------ *)
(* ZMarkStackAllocator                                                *)
(* ------------------------------------------------------------------ *)

\* ZMarkStackSpace::ZMarkStackSpace (reserve, publish _start = _top = _end)
\* and the test of _space.is_initialized() in ZMarkStackAllocator's constructor
Construct(a) ==
  /\ Running /\ pc[Main] = "ctor"
  /\ reserved' = a
  /\ IF a = 0
       THEN UNCHANGED <<start, top, end>>
       ELSE start' = a /\ top' = a /\ end' = a
  /\ pc' = [pc EXCEPT ![Main] = IF AllocatorIsInitialized' THEN "prime" ELSE "done"]
  /\ UNCHANGED <<lock, committed, fatal, listVars, op, localVars, primed, ncalls, nullret, granted>>
  /\ UNCHANGED magVars

\* prime_freelist: the loop test and _space.alloc(ZMarkStackMagazineSize)
PrimeLoop ==
  /\ Running /\ pc[Main] = "prime"
  /\ IF PrimeMore(primed)
       THEN /\ op' = [op EXCEPT ![Main] = "prime"]
            /\ size' = [size EXCEPT ![Main] = ZMarkStackMagazineSize]
            /\ pc' = [pc EXCEPT ![Main] = "as_load_top"]
       ELSE /\ pc' = [pc EXCEPT ![Main] = "done"]
            /\ UNCHANGED <<op, size>>
  /\ UNCHANGED <<spaceVars, listVars, ltop, addr, inlock, old_size, primed, ncalls, nullret, granted>>
  /\ UNCHANGED <<reserved, magVars>>

\* prime_freelist: create_magazine_from_space(addr, size); free_magazine(magazine);
\* size += ZMarkStackMagazineSize
PrimeReturn ==
  /\ Running /\ pc[Main] = "alloc_ret" /\ op[Main] = "prime"
  /\ magazine' = magazine \cup
       {[addr |-> addr[Main], stacks |-> CreateMagazineFromSpace(addr[Main], size[Main])]}
  /\ freelist' = FreelistPush(freelist, addr[Main])
  /\ primed' = primed + ZMarkStackMagazineSize
  /\ granted' = granted \cup {[addr |-> addr[Main], size |-> size[Main]]}
  /\ pc' = [pc EXCEPT ![Main] = "prime"]
  /\ ClearLocals(Main)
  /\ UNCHANGED <<spaceVars, held, ncalls, nullret>>
  /\ UNCHANGED <<reserved, magVars>>

\* alloc_magazine up to the call of _space.alloc: a magazine popped from the
\* free list is returned at once
AllocMagazine(t) ==
  /\ Running /\ pc[t] = "idle" /\ pc[Main] = "done"
  /\ IsInitialized
  /\ ncalls' = ncalls + 1
  /\ IF freelist # <<>>
       THEN /\ freelist' = FreelistPop(freelist)
            /\ held' = [held EXCEPT ![t] = @ \cup {FreelistTop(freelist)}]
            /\ UNCHANGED <<pc, op, size>>
       ELSE /\ op' = [op EXCEPT ![t] = "alloc_magazine"]
            /\ size' = [size EXCEPT ![t] = ZMarkStackMagazineSize]
            /\ pc' = [pc EXCEPT ![t] = "as_load_top"]
            /\ UNCHANGED <<freelist, held>>
  /\ UNCHANGED <<spaceVars, magazine, ltop, addr, inlock, old_size, primed, nullret,
                 granted>>
  /\ UNCHANGED <<reserved, magVars>>

\* alloc_magazine after _space.alloc returned: NULL for addr == 0, else
\* create_magazine_from_space(addr, ZMarkStackMagazineSize)
AllocMagazineReturn(t) ==
  /\ Running /\ pc[t] = "alloc_ret" /\ op[t] = "alloc_magazine"
  /\ granted' = granted \cup {[addr |-> addr[t], size |-> size[t]]}
  /\ IF addr[t] = 0
       THEN /\ nullret' = TRUE
            /\ UNCHANGED <<magazine, held>>
       ELSE /\ magazine' = magazine \cup
                 {[addr |-> addr[t], stacks |-> CreateMagazineFromSpace(addr[t], size[t])]}
            /\ held' = [held EXCEPT ![t] = @ \cup {addr[t]}]
            /\ UNCHANGED nullret
  /\ pc' = [pc EXCEPT ![t] = "idle"]
  /\ ClearLocals(t)
  /\ UNCHANGED <<spaceVars, freelist, primed, ncalls>>
  /\ UNCHANGED <<reserved, magVars>>

\* faulty variant: the magazine is not pushed on the free list
FreeMagazineDropsIt(t, m) ==
  /\ Running /\ pc[t] = "idle" /\ pc[Main] = "done"
  /\ m \in held[t]
  /\ held' = [held EXCEPT ![t] = @ \ {m}]
  /\ ncalls' = ncalls + 1
  /\ UNCHANGED <<spaceVars, freelist, magazine, pc, op, localVars, primed, nullret, granted>>
  /\ UNCHANGED <<reserved, magVars>>

\* free_magazine(m) by the worker that holds m
FreeMagazine(t, m) ==
  /\ Running /\ pc[t] = "idle" /\ pc[Main] = "done"
  /\ m \in held[t]
  /\ freelist' = FreelistPush(freelist, m)
  /\ held' = [held EXCEPT ![t] = @ \ {m}]
  /\ ncalls' = ncalls + 1
  /\ UNCHANGED <<spaceVars, magazine, pc, op, localVars, primed, nullret, granted>>
  /\ UNCHANGED <<reserved, magVars>>

(* ------------------------------------------------------------------ *)
(* One magazine                                                       *)
(* ------------------------------------------------------------------ *)

\* create_magazine_from_space(m_addr, m_size): with assert() compiled in, a
\* push that returns false stops the process; without, the loop goes on
Format ==
  /\ m_pc = "raw"
  /\ IF m_debug /\ CreateMagazineFailures(m_addr, m_size) > 0
       THEN /\ m_pc' = "assert"
            /\ UNCHANGED <<m_stacks, m_failed, m_stamp>>
       ELSE /\ m_pc' = "ready"
            /\ m_stacks' = CreateMagazineFromSpace(m_addr, m_size)
            /\ m_failed' = CreateMagazineFailures(m_addr, m_size)
            /\ m_stamp' = [a \in StackAddrs |->
                             IF \E i \in 1..Len(m_stacks') : m_stacks'[i] = a
                               THEN CHOOSE i \in 1..Len(m_stacks') : m_stacks'[i] = a
                               ELSE 0]
  /\ UNCHANGED <<m_debug, m_addr, m_size, m_last, m_ops>>
  /\ UNCHANGED allocVars

\* magazine->push(stack) by the owner of the magazine, for a stack it holds
MagPush(a) ==
  /\ m_pc = "ready" /\ m_ops < MaxMagOps
  /\ \A i \in 1..Len(m_stacks) : m_stacks[i] # a
  /\ m_stacks' = MagazinePush(m_stacks, a)
  /\ m_last' = [op |-> "push", arg |-> a,
                ret |-> IF MagazinePushResult(m_stacks) THEN 1 ELSE 0]
  /\ m_stamp' = IF MagazinePushResult(m_stacks)
                  THEN [m_stamp EXCEPT ![a] = MaxChunkSlots + m_ops + 1]
                  ELSE m_stamp
  /\ m_ops' = m_ops + 1
  /\ UNCHANGED <<m_pc, m_debug, m_addr, m_size, m_failed>>
  /\ UNCHANGED allocVars

\* magazine->pop() by the owner of the magazine
MagPop ==
  /\ m_pc = "ready" /\ m_ops < MaxMagOps
  /\ m_stacks' = MagazinePop(m_stacks)
  /\ m_last' = [op |-> "pop", arg |-> 0, ret |-> MagazinePopResult(m_stacks)]
  /\ m_stamp' = IF MagazinePopResult(m_stacks) = 0
                  THEN m_stamp
                  ELSE [m_stamp EXCEPT ![MagazinePopResult(m_stacks)] = 0]
  /\ m_ops' = m_ops + 1
  /\ UNCHANGED <<m_pc, m_debug, m_addr, m_size, m_failed>>
  /\ UNCHANGED allocVars

(* ------------------------------------------------------------------ *)
(* Specifications                                                     *)
(* ------------------------------------------------------------------ *)

\* one chunk formatted into a magazine, then pushes and pops by its owner
NextMagazine ==
  \/ Format
  \/ \E a \in ({m_addr + i * ZMarkStackSize :
                    i \in 1..((m_size \div ZMarkStackSize) - 1)} \cup ForeignStacks) :
        MagPush(a)
  \/ MagPop

SpecMagazine == InitMagazine /\ [][NextMagazine]_vars


\* the steps inside ZMarkStackSpace::alloc
SpaceStep(t) ==
  \/ LoadTop(t)
  \/ LoadEnd(t)
  \/ Cas(t)
  \/ Lock(t)
  \/ CheckLimit(t)
  \/ Commit(t)
  \/ FetchAndAdd(t)
  \/ AddEnd(t)
  \/ ExpandReturn(t)

\* the allocator: construction, then workers that allocate and free magazines
Next ==
  \/ \E a \in ReserveResults : Construct(a)
  \/ PrimeLoop
  \/ PrimeReturn
  \/ \E t \in Threads : SpaceStep(t)
  \/ \E t \in Workers : ncalls < MaxCalls /\ AllocMagazine(t)
  \/ \E t \in Workers : AllocMagazineReturn(t)
  \/ \E t \in Workers : \E m \in held[t] : ncalls < MaxCalls /\ FreeMagazine(t, m)

Spec == Init /\ [][Next]_vars

\* the address space alone: workers that call alloc(size)
NextSpace ==
  \/ \E t \in Workers : SpaceStep(t)
  \/ \E t \in Workers : \E sz \in AllocSizes : Alloc(t, sz)
  \/ \E t \in Workers : AllocReturn(t)

SpecSpace == InitSpace /\ [][NextSpace]_vars

\* the address space with every worker that can take a step of its call
\* eventually taking one
SpecSpaceFair ==
  /\ InitSpace
  /\ [][NextSpace]_vars
  /\ \A t \in Workers : WF_vars(SpaceStep(t) \/ AllocReturn(t))

\* the allocator called by one worker at a time, no magazine freed
NextScenario ==
  \/ \E a \in ReserveResults : Construct(a)
  \/ PrimeLoop
  \/ PrimeReturn
  \/ \E t \in Threads : SpaceStep(t)
  \/ \E t \in Workers : (\A u \in Workers : pc[u] = "idle") /\ AllocMagazine(t)
  \/ \E t \in Workers : AllocMagazineReturn(t)

SpecScenario == Init /\ [][NextScenario]_vars

(* ------------------------------------------------------------------ *)
(* Properties of ZMarkStackSpace (checked under SpecSpace)            *)
(* ------------------------------------------------------------------ *)

\* first byte past the committed prefix of the reservation
CommittedEnd == start + Cardinality(committed) * ZMarkStackSpaceExpandSize

Disjoint(r1, r2) == r1.addr + r1.size <= r2.addr \/ r2.addr + r2.size <= r1.addr

RECURSIVE SumSizes(_)
SumSizes(rs) ==
  IF rs = {} THEN 0
  ELSE LET r == CHOOSE x \in rs : TRUE IN r.size + SumSizes(rs \ {r})

Quiescent == \A t \in Threads : pc[t] \in {"idle", "done"}

\* C1 as stated: top <= end in every reachable state, also between the
\* atomic steps of expand_and_alloc_space.
C1_TopNeverAboveEnd == top <= end

\* C1, amended: end never passes start + ZMarkStackSpaceLimit, and top <= end
\* holds in every state except while the lock holder stands between its
\* fetch_and_add on _top and its add on _end; there top may pass end, but
\* never the committed boundary end + ZMarkStackSpaceExpandSize.
C1_TopLeEndOutsidePublish ==
  /\ start <= top
  /\ end <= start + ZMarkStackSpaceLimit
  /\ (\A t \in Threads : pc[t] # "add_end") => top <= end
  /\ \A t \in Threads :
       pc[t] = "add_end" =>
         /\ lock = t
         /\ top <= end + ZMarkStackSpaceExpandSize
         /\ top <= CommittedEnd

\* C1 witness: the expanding thread has advanced top past the unpublished end
\* and another thread has read that top.
C1_Witness ==
  \E t, u \in Workers :
    /\ pc[t] = "add_end" /\ top > end
    /\ pc[u] = "as_load_end" /\ ltop[u] > end

\* C2: the ranges returned by alloc are pairwise disjoint, lie in [start, top)
\* and, once every call has returned, cover [start, top) exactly.
C2_RangesTile ==
  /\ \A r1, r2 \in granted : r1 # r2 => Disjoint(r1, r2)
  /\ \A r \in granted : start <= r.addr /\ r.addr + r.size <= top
  /\ Quiescent => SumSizes(granted) = top - start

\* C2 witness: all calls returned, at least three ranges, one of them claimed
\* by an expansion across the old end.
C2_Witness ==
  /\ Quiescent
  /\ Cardinality(granted) >= 3
  /\ \E r \in granted :
       /\ r.addr < start + ZMarkStackSpaceExpandSize
       /\ r.addr + r.size > start + ZMarkStackSpaceExpandSize

\* C3: every address alloc has returned, or is about to return, denotes a
\* range inside the committed prefix [start, CommittedEnd).
C3_GrantedIsCommitted ==
  /\ committed = {start + i * ZMarkStackSpaceExpandSize : i \in 0..(Cardinality(committed) - 1)}
  /\ \A r \in granted : start <= r.addr /\ r.addr + r.size <= CommittedEnd
  /\ \A t \in Threads :
       pc[t] \in {"add_end", "exp_ret", "alloc_ret"} =>
         start <= addr[t] /\ addr[t] + size[t] <= CommittedEnd

\* C3 witness: a returned range that ends on the boundary of the second increment
C3_Witness ==
  /\ Cardinality(committed) = 2
  /\ \E r \in granted : r.addr + r.size = CommittedEnd

\* C4: after a failed retry under the lock, the limit check terminates the
\* process iff (end - start) + ZMarkStackSpaceExpandSize > ZMarkStackSpaceLimit;
\* otherwise the thread commits, end grows by exactly one increment from the
\* value the check read, and the call returns a nonzero address.
C4_ExpansionThreshold ==
  [][\A t \in Workers :
       /\ (pc[t] = "check_limit" /\ pc'[t] # "check_limit") =>
            IF (end - start) + ZMarkStackSpaceExpandSize > ZMarkStackSpaceLimit
              THEN fatal' /\ pc'[t] = "fatal" /\ end' = end /\ top' = top
              ELSE ~fatal' /\ pc'[t] = "commit"
       /\ (pc[t] \in {"commit", "faa", "add_end"} /\ pc'[t] # pc[t]) =>
            ~fatal' /\ lock = t
       /\ (pc[t] = "add_end" /\ pc'[t] # "add_end") =>
            /\ end = start + old_size[t]
            /\ end' = end + ZMarkStackSpaceExpandSize
            /\ end' <= start + ZMarkStackSpaceLimit
            /\ pc'[t] = "exp_ret" /\ addr'[t] # 0
       /\ (pc[t] = "alloc_ret" /\ pc'[t] # "alloc_ret") =>
            [addr |-> addr[t], size |-> size[t]] \in granted' /\ addr[t] # 0
  ]_vars

\* C4 witness: an expansion that landed exactly on the limit is returning
C4_Witness ==
  \E t \in Workers :
    /\ pc[t] = "alloc_ret"
    /\ old_size[t] + ZMarkStackSpaceExpandSize = ZMarkStackSpaceLimit
    /\ end = start + ZMarkStackSpaceLimit
    /\ addr[t] # 0

(* ------------------------------------------------------------------ *)
(* Properties of ZMarkStackAllocator                                  *)
(* ------------------------------------------------------------------ *)

MagazineAddrs == {m.addr : m \in magazine}
FreelistSet == {freelist[i] : i \in 1..Len(freelist)}
Holders(a) == {w \in Workers : a \in held[w]}
StacksOf(a) == (CHOOSE m \in magazine : m.addr = a).stacks
WorkersIdle == \A w \in Workers : pc[w] = "idle"

\* C5: every magazine is on the free list or held by exactly one worker,
\* never both and never twice, and the chunks of distinct magazines do not overlap.
C5_ExclusiveOwnership ==
  /\ Cardinality(FreelistSet) = Len(freelist)
  /\ Cardinality(MagazineAddrs) = Cardinality(magazine)
  /\ FreelistSet \subseteq MagazineAddrs
  /\ \A w \in Workers : held[w] \subseteq MagazineAddrs
  /\ \A a \in MagazineAddrs :
       /\ Cardinality(Holders(a)) <= 1
       /\ (a \in FreelistSet) # (Holders(a) # {})
  /\ \A a, b \in MagazineAddrs :
       a # b => (a + ZMarkStackMagazineSize <= b \/ b + ZMarkStackMagazineSize <= a)

\* C5 witness: each worker holds a magazine, one of them carved after the
\* priming, while a freed magazine lies on top of the free list.
C5_Witness ==
  /\ \A w \in Workers : held[w] # {}
  /\ \E w \in Workers : \E a \in held[w] : a >= start + ZMarkStackSpaceExpandSize
  /\ freelist # <<>>
  /\ top > start + ZMarkStackSpaceExpandSize
  /\ \E w \in Workers : pc[w] = "as_cas"

\* C6: on an initialized allocator alloc_magazine does not return NULL:
\* the address handed back by ZMarkStackSpace::alloc is never 0.
C6_NeverReturnsNull ==
  /\ ~nullret
  /\ \A t \in Threads : pc[t] = "alloc_ret" => addr[t] # 0
  /\ 0 \notin MagazineAddrs

\* C6 witness: the process ended in fatal() after calls that were served by
\* the free list, by the fast path and by an expansion, none returning NULL.
C6_Witness ==
  /\ fatal
  /\ ~nullret
  /\ Cardinality(UNION {held[w] : w \in Workers}) =
       ZMarkStackSpaceLimit \div ZMarkStackMagazineSize

\* C7 as stated: with no magazine freed, the sixth alloc_magazine call does
\* not return (it terminates the process).
C7_SixthCallTerminates == ~(ncalls = 6 /\ WorkersIdle)

\* C7, amended: with no magazine freed, calls six to eight are served by the
\* space the fifth call committed; the ninth call is the one that finds
\* old_size + ZMarkStackSpaceExpandSize above the limit and terminates the process.
C7_NinthCallTerminates ==
  /\ ncalls <= 9
  /\ fatal => /\ ncalls = 9
              /\ end = start + ZMarkStackSpaceLimit /\ top = end
              /\ \E w \in Workers : pc[w] = "fatal" /\ old_size[w] = ZMarkStackSpaceLimit
  /\ ncalls = 9 => ~WorkersIdle
  /\ (ncalls \in 6..8 /\ WorkersIdle) =>
       /\ ~fatal
       /\ end = start + ZMarkStackSpaceLimit
       /\ Cardinality(UNION {held[w] : w \in Workers}) = ncalls
  /\ ncalls \in 6..8 =>
       \A w \in Workers : pc[w] \notin {"lock", "check_limit", "commit", "faa", "add_end", "fatal"}

\* C7 witness: the ninth call has terminated the process
C7_Witness == fatal /\ ncalls = 9 /\ \E w \in Workers : pc[w] = "fatal"

\* C8: with no magazine freed, each of the first four calls pops the free
\* list and leaves top and end alone; only the fifth call expands, moving end
\* from start + 1280 to start + 2560, and it returns a magazine.
C8_FifthCallExpands ==
  /\ [](pc[Main] = "done" /\ IsInitialized /\ ncalls <= 4 =>
          /\ top = start + 1280 /\ end = start + 1280
          /\ WorkersIdle
          /\ Len(freelist) = 4 - ncalls
          /\ Cardinality(UNION {held[w] : w \in Workers}) = ncalls)
  /\ [](ncalls = 5 /\ WorkersIdle =>
          /\ end = start + 2560 /\ top = start + 1280 + 320
          /\ \E w \in Workers : start + 1280 \in held[w])
  /\ [][(pc[Main] = "done" /\ end' # end) =>
          /\ ncalls = 5
          /\ end = start + 1280 /\ end' = start + 2560]_vars
  /\ [][(ncalls' = ncalls + 1 /\ ncalls < 4) =>
          /\ top' = top /\ end' = end /\ pc' = pc
          /\ freelist' = Tail(freelist)
          /\ \E w \in Workers : held'[w] = held[w] \cup {Head(freelist)}]_vars

\* C8 witness: the fifth call has returned the magazine carved at start + 1280
C8_Witness ==
  /\ ncalls = 5 /\ WorkersIdle /\ ~fatal
  /\ end = start + 2560
  /\ \E w \in Workers : start + 1280 \in held[w]

\* C9: when the constructor has primed the free list, one increment has been
\* committed, top = end = start + ZMarkStackSpaceExpandSize, and the free list
\* holds ZMarkStackSpaceExpandSize / ZMarkStackMagazineSize distinct magazines
\* of ZMarkStackMagazineSize / ZMarkStackSize - 1 stacks each (4 of 4).
C9_PrimingPostcondition ==
  (pc[Main] = "done" /\ IsInitialized /\ ncalls = 0) =>
    /\ committed = {start}
    /\ top = start + ZMarkStackSpaceExpandSize
    /\ end = start + ZMarkStackSpaceExpandSize
    /\ Len(freelist) = ZMarkStackSpaceExpandSize \div ZMarkStackMagazineSize
    /\ Len(freelist) = 4
    /\ Cardinality(FreelistSet) = Len(freelist)
    /\ FreelistSet = MagazineAddrs
    /\ \A a \in FreelistSet :
         /\ Len(StacksOf(a)) = (ZMarkStackMagazineSize \div ZMarkStackSize) - 1
         /\ Len(StacksOf(a)) = 4

\* C9 witness: construction with a successful reservation has finished
C9_Witness ==
  /\ pc[Main] = "done" /\ IsInitialized /\ ncalls = 0
  /\ Len(freelist) = 4

\* C10: the first alloc_magazine call after construction returns the magazine
\* on top of the free list in its first step; top, end and the expand lock
\* are untouched and no thread enters ZMarkStackSpace::alloc.
C10_FirstCallFromFreelist ==
  [][(ncalls = 0 /\ ncalls' = 1) =>
       /\ freelist # <<>>
       /\ top' = top /\ end' = end
       /\ lock = NoThread /\ lock' = NoThread
       /\ pc' = pc
       /\ \E w \in Workers : held'[w] = {Head(freelist)} /\ Head(freelist) # 0]_vars

\* C10 witness: the first call has returned a magazine, the space is as primed
C10_Witness ==
  /\ ncalls = 1
  /\ \E w \in Workers : Cardinality(held[w]) = 1
  /\ WorkersIdle
  /\ top = start + ZMarkStackSpaceExpandSize /\ end = top

(* ------------------------------------------------------------------ *)
(* Free list reuse, monotonicity, conservation (checked under Spec)   *)
(* ------------------------------------------------------------------ *)

RECURSIVE SumHeld(_)
SumHeld(n) == IF n = 0 THEN 0 ELSE Cardinality(held[n]) + SumHeld(n - 1)

\* number of magazines in the workers' hands, counted per worker
HeldCount == SumHeld(NumWorkers)

\* C11: free_magazine(M) leaves M on top of the free list, only an
\* alloc_magazine call takes a magazine off it, and an alloc_magazine call that
\* finds the free list non-empty (the next call after a free always does)
\* returns the magazine on top of it in one step, with top, end and every
\* thread's position unchanged.
C11_AllocAfterFreeReusesFreelist ==
  [][/\ (Len(freelist') < Len(freelist)) => (ncalls' = ncalls + 1)
     /\ (ncalls' = ncalls + 1) =>
          /\ \A w \in Workers :
               (held'[w] # held[w] /\ held'[w] \subseteq held[w]) =>
                  /\ freelist' # <<>>
                  /\ Len(freelist') = Len(freelist) + 1
                  /\ held[w] \ held'[w] = {Head(freelist')}
                  /\ top' = top /\ end' = end
          /\ (freelist # <<>> /\ \A w \in Workers : held[w] \subseteq held'[w]) =>
                  /\ top' = top /\ end' = end /\ pc' = pc /\ lock' = lock
                  /\ freelist' = Tail(freelist)
                  /\ \E w \in Workers :
                       Head(freelist) \notin held[w] /\ held'[w] = held[w] \cup {Head(freelist)}
  ]_vars

\* C11 witness: five alloc_magazine calls and one free_magazine call have
\* returned, four magazines are held and top is where the priming left it:
\* the call after the free got its magazine from the free list.
C11_Witness ==
  /\ WorkersIdle /\ pc[Main] = "done"
  /\ ncalls = 6 /\ HeldCount = 4
  /\ freelist = <<>>
  /\ top = start + ZMarkStackSpaceExpandSize /\ end = top

\* C12: no step lowers top or end, and start does not change once it is set.
C12_Monotonic ==
  [][/\ top' >= top
     /\ end' >= end
     /\ start # 0 => start' = start]_vars

\* C12 witness: top and end have grown past the primed increment while a
\* thread holds a stale top that its compare-and-swap is about to reject
C12_Witness ==
  /\ start # 0
  /\ end = start + 2 * ZMarkStackSpaceExpandSize
  /\ top > start + ZMarkStackSpaceExpandSize
  /\ \E w \in Workers : pc[w] = "as_cas" /\ ltop[w] < top

\* C20: whenever no priming step and no alloc_magazine call is in flight,
\* the number of magazines carved, (top - start) / ZMarkStackMagazineSize,
\* is the number on the free list plus the number held by the workers; and a
\* step that pops the free list does not move top.
C20_MagazinesConserved ==
  /\ []((pc[Main] = "done" /\ WorkersIdle) =>
          /\ (top - start) % ZMarkStackMagazineSize = 0
          /\ (top - start) \div ZMarkStackMagazineSize = Len(freelist) + HeldCount
          /\ Cardinality(magazine) = Len(freelist) + HeldCount)
  /\ [][(Len(freelist') < Len(freelist)) => (top' = top /\ end' = end)]_vars

\* C20 witness: all calls returned; magazines carved after the priming are
\* held, and one that was freed is on the free list
C20_Witness ==
  /\ pc[Main] = "done" /\ WorkersIdle
  /\ top > start + ZMarkStackSpaceExpandSize
  /\ Len(freelist) >= 1
  /\ HeldCount >= 4

(* ------------------------------------------------------------------ *)
(* The expansion critical section (checked under SpecSpace)           *)
(* ------------------------------------------------------------------ *)

\* positions of expand_and_alloc_space after the retry under the lock failed
Expanding == {"check_limit", "commit", "faa", "add_end"}

\* C17: while the lock holder stands between its failed retry and its add on
\* _end, every other thread's step leaves top at or below the old end (only
\* the holder's fetch_and_add moves top past it), so the range the
\* fetch_and_add returns ends at top, at or below old end +
\* ZMarkStackSpaceExpandSize, lies below the published end when the call
\* returns, and the add on _end is followed by the return, not by another
\* expansion.
C17_ExpansionNotStolen ==
  /\ [](\A t \in Threads :
          /\ pc[t] \in {"check_limit", "commit", "faa"} =>
                lock = t /\ top <= end /\ top + size[t] > end
          /\ pc[t] = "add_end" =>
                /\ lock = t
                /\ addr[t] <= end /\ addr[t] + size[t] = top
                /\ addr[t] + size[t] <= end + ZMarkStackSpaceExpandSize
          /\ pc[t] = "exp_ret" => lock = t /\ addr[t] + size[t] <= end)
  /\ [][\A t \in Threads :
          /\ (pc[t] \in Expanding /\ top' # top) =>
                \/ top' <= end
                \/ pc[t] = "faa" /\ pc'[t] = "add_end"
          /\ (pc[t] = "add_end" /\ pc'[t] # pc[t]) =>
                pc'[t] = "exp_ret" /\ addr'[t] = addr[t] /\ addr[t] + size[t] <= end'
          /\ (pc[t] = "exp_ret" /\ pc'[t] # pc[t]) => pc'[t] = "alloc_ret"
     ]_vars

\* C17 witness: during the window another thread took space below the old end
\* on the fast path, and the expanding thread's range straddles the old end
C17_Witness ==
  \E t, u \in Workers :
    /\ t # u
    /\ pc[t] = "add_end"
    /\ addr[t] < end /\ addr[t] + size[t] > end
    /\ pc[u] = "alloc_ret" /\ addr[u] + size[u] = addr[t]
    /\ addr[u] >= ltop[t] /\ ltop[t] # 0

\* C18: a thread enters the expansion only after a retry under the lock that
\* did not fit, a retry that fits takes its range without moving end, end
\* moves only in the add on _end of a holder whose request did not fit below
\* it, and end - top stays below ZMarkStackSpaceExpandSize.
C18_NoRedundantExpansion ==
  /\ [](end - top < ZMarkStackSpaceExpandSize)
  /\ [][/\ \A t \in Threads :
            /\ (pc'[t] = "check_limit" /\ pc[t] # "check_limit") =>
                  /\ pc[t] = "as_load_end" /\ inlock[t] /\ lock = t
                  /\ ltop[t] + size[t] > end
            /\ (pc[t] = "as_load_end" /\ pc'[t] # pc[t] /\ inlock[t]
                   /\ ltop[t] + size[t] <= end) => pc'[t] = "as_cas"
            /\ (pc[t] = "as_cas" /\ pc'[t] = "exp_ret") =>
                  end' = end /\ addr'[t] + size[t] <= end
        /\ (end' # end) =>
              \E t \in Threads :
                /\ lock = t /\ pc[t] = "add_end"
                /\ addr[t] + size[t] > end
     ]_vars

\* C18 witness: a thread that waited for the lock through another thread's
\* expansion returns a range from the expanded space without having expanded
C18_Witness ==
  \E t \in Workers :
    /\ pc[t] = "exp_ret" /\ lock = t
    /\ old_size[t] = 0
    /\ end = start + 2 * ZMarkStackSpaceExpandSize
    /\ addr[t] >= start + ZMarkStackSpaceExpandSize

\* C19: at most one thread is inside expand_and_alloc_space past the lock,
\* end changes only in the lock holder's add, by exactly
\* ZMarkStackSpaceExpandSize, end - start is a multiple of
\* ZMarkStackSpaceExpandSize and start <= end <= start + ZMarkStackSpaceLimit.
C19_ExpansionSerialized ==
  /\ [](/\ \A t, u \in Threads : (inlock[t] /\ inlock[u]) => t = u
        /\ \A t \in Threads :
             /\ inlock[t] <=> lock = t
             /\ pc[t] \in Expanding \cup {"exp_ret"} => inlock[t]
        /\ (end - start) % ZMarkStackSpaceExpandSize = 0
        /\ start <= end /\ end <= start + ZMarkStackSpaceLimit)
  /\ [][(end' # end) =>
          /\ lock \in Threads /\ lock' = lock
          /\ pc[lock] = "add_end" /\ pc'[lock] = "exp_ret"
          /\ end' = end + ZMarkStackSpaceExpandSize
     ]_vars

\* C19 witness: one thread finishes the expansion that reaches the limit while
\* another waits for the lock
C19_Witness ==
  \E t, u \in Workers :
    /\ t # u
    /\ lock = t /\ pc[t] = "exp_ret"
    /\ end = start + ZMarkStackSpaceLimit /\ old_size[t] = ZMarkStackSpaceExpandSize
    /\ pc[u] = "lock"

(* ------------------------------------------------------------------ *)
(* Termination of calls (checked under SpecSpaceFair)                 *)
(* ------------------------------------------------------------------ *)

\* C16: under weak fairness of every worker's steps, a call in progress
\* eventually returns or the process reaches fatal(); a held expand lock is
\* eventually released or the process reaches fatal(); and in a state that is
\* not fatal and has a call in progress some step is enabled.
C16_CallsTerminate ==
  /\ \A t \in Workers : (pc[t] # "idle") ~> (pc[t] = "idle" \/ fatal)
  /\ \A t \in Workers : (lock = t) ~> (lock = NoThread \/ fatal)
  /\ []((~fatal /\ \E t \in Workers : pc[t] # "idle") => ENABLED <<NextSpace>>_vars)

\* C16 witness: the lock holder's cmpxchg under the lock is about to fail
\* because another worker has just taken space on the fast path
C16_Witness ==
  \E t, u \in Workers :
    /\ t # u
    /\ lock = u /\ pc[u] = "as_cas" /\ ltop[u] # top
    /\ pc[t] = "alloc_ret" /\ addr[t] = ltop[u]

(* ------------------------------------------------------------------ *)
(* Failed reservation (checked under Spec)                            *)
(* ------------------------------------------------------------------ *)

\* C15: once the constructors have run, is_initialized() of the space and of
\* the allocator is true iff os::reserve_memory returned an address; after a
\* failed reservation construction is finished without fatal(), start = top =
\* end = 0, nothing was primed (free list empty, no magazine formatted, no
\* range handed out) and nothing was committed.
C15_ReservationFailure ==
  (pc[Main] # "ctor") =>
    /\ IsInitialized <=> reserved # 0
    /\ AllocatorIsInitialized <=> reserved # 0
    /\ (reserved = 0) =>
         /\ pc[Main] = "done" /\ ~fatal
         /\ start = 0 /\ top = 0 /\ end = 0
         /\ freelist = <<>> /\ magazine = {} /\ primed = 0 /\ granted = {}
         /\ committed = {}
         /\ \A w \in Workers : pc[w] = "idle" /\ held[w] = {}

\* C15 witness: construction finished after os::reserve_memory returned NULL
C15_Witness ==
  /\ pc[Main] = "done" /\ reserved = 0
  /\ ~IsInitialized /\ ~fatal

(* ------------------------------------------------------------------ *)
(* Properties of one magazine (checked under SpecMagazine)            *)
(* ------------------------------------------------------------------ *)

\* number of ZMarkStackSize slots of the chunk
ChunkSlots == m_size \div ZMarkStackSize

\* the slots of the chunk after the first i
SlotsAfterHeader(n) == {m_addr + i * ZMarkStackSize : i \in 1..n}

StacksHeld == {m_stacks[i] : i \in 1..Len(m_stacks)}

\* create_magazine_from_space has run and the magazine was not touched since
Formatted == m_pc \in {"ready", "assert"} /\ m_ops = 0

InMagazine == {a \in DOMAIN m_stamp : m_stamp[a] > 0}

\* C14: the magazine holds between 0 and ZMarkStackMagazineSize /
\* ZMarkStackSize - 1 stacks, those pushed and not popped since; push on a
\* full magazine returns false and changes nothing, any other push returns
\* true and adds the stack; pop on an empty magazine returns NULL, any other
\* pop returns and removes the stack pushed last among those in the magazine.
C14_PushPopLifo ==
  /\ []((m_pc = "ready") =>
          /\ Len(m_stacks) >= 0
          /\ Len(m_stacks) <= (ZMarkStackMagazineSize \div ZMarkStackSize) - 1
          /\ Cardinality(StacksHeld) = Len(m_stacks)
          /\ InMagazine = StacksHeld)
  /\ [][(m_ops' = m_ops + 1) =>
          /\ (m_last'.op = "push") =>
                IF Len(m_stacks) = (ZMarkStackMagazineSize \div ZMarkStackSize) - 1
                  THEN m_last'.ret = 0 /\ m_stacks' = m_stacks
                  ELSE /\ m_last'.ret = 1
                       /\ Len(m_stacks') = Len(m_stacks) + 1
                       /\ InMagazine' = InMagazine \cup {m_last'.arg}
          /\ (m_last'.op = "pop") =>
                IF InMagazine = {}
                  THEN m_last'.ret = 0 /\ m_stacks' = m_stacks
                  ELSE /\ m_last'.ret \in InMagazine
                       /\ \A b \in InMagazine : m_stamp[b] <= m_stamp[m_last'.ret]
                       /\ InMagazine' = InMagazine \ {m_last'.ret}
                       /\ Len(m_stacks') = Len(m_stacks) - 1
     ]_vars

\* C14 witness: after a pop and the push of a stack of another magazine, the
\* push of the popped stack on the full magazine has returned false
C14_Witness ==
  /\ m_pc = "ready" /\ m_ops >= 3
  /\ m_last.op = "push" /\ m_last.ret = 0
  /\ Len(m_stacks) = ZMarkStackMagazineSlots
  /\ m_stacks[Len(m_stacks)] \in ForeignStacks
  /\ m_last.arg \in SlotsAfterHeader(ChunkSlots - 1)

====
